---- MODULE Spec2Model ----
(***************************************************************************)
(* The room/participant/track telemetry facade of                          *)
(* pkg/telemetry/prometheus/rooms.go: nine atomic.Int32 mirrors, seven      *)
(* Prometheus collectors held in package-level variables, initRoomStats     *)
(* and the twelve event entry points.                                       *)
(*                                                                          *)
(* Every source statement that touches shared state is one atomic step of   *)
(* the goroutine (worker) that runs it; pc[w] is the source line the worker *)
(* is about to execute (0: not in a call).  A branch on a parameter alone   *)
(* (rooms.go:110, rooms.go:171) is folded into the step before it.          *)
(* `x.WithLabelValues(lvs).Add(d)` is one step: the child series is created *)
(* with value 0 when absent and then moved, and a series that is absent and *)
(* one that stands at 0 have the same value.                                *)
(*                                                                          *)
(* A function's closing brace is a step of its own, the return.  arg[w].log  *)
(* is what the call has done so far: per statement executed, the set of     *)
(* mirrors and series it moved and by how much.                             *)
(*                                                                          *)
(* A panic ends the call (pc back to 0) and is counted in `panics`; the     *)
(* caller may recover and go on.  initRoomStats writes the package-level    *)
(* collector variables without synchronisation, so it is run while no       *)
(* event call is in flight (server start-up); it may run more than once.    *)
(***************************************************************************)
EXTENDS Integers, FiniteSets, Sequences, TLC

\* ------------------------------------------------------------------ bounds
NumWorkers == 2
MaxCalls == 3

Workers == 1..NumWorkers

\* ------------------------------------------------------- argument domains
Kinds == {"audio", "video"}
ZeroTime == 0
StartTimes == {ZeroTime, 1}
ElapsedSeconds == {4, 65}
NilError == [isNil |-> TRUE, msg |-> ""]
Errors == {NilError, [isNil |-> FALSE, msg |-> "denied"], [isNil |-> FALSE, msg |-> "timeout"]}
NodeIDs == {"n1", "n2"}
NodeTypes == {"SERVER"}
Envs == {"test"}

\* ---------------------------------------------------------- atomic.Int32
\* The width of atomic.Int32, and a narrow width at which a run of a few calls
\* reaches the ends of the range.
Int32Bits == 32
NarrowBits == 2

VARIABLE bits    \* the width of the mirrors in this run

\* The largest value of the width: 2^(bits-1) - 1, summed from halves.
MaxInt32 == 2^(bits - 2) - 1 + 2^(bits - 2)
MinInt32 == -MaxInt32 - 1

\* Mutant: Store(1) where Inc() was meant.
Inc32StoreOne(x) == 1

\* Mutant: an increment that stops at the largest value.
Inc32Saturating(x) == IF x = MaxInt32 THEN x ELSE x + 1

Inc32(x) == IF x = MaxInt32 THEN MinInt32 ELSE x + 1

\* Mutant: a decrement that stops at zero.
Dec32Clamped(x) == IF x <= 0 THEN 0 ELSE x - 1

Dec32(x) == IF x = MinInt32 THEN MaxInt32 ELSE x - 1

\* ------------------------------------------------- collectors (client lib)
Nil == 0

MirrorNames == {"roomCurrent", "participantCurrent", "trackPublishedCurrent",
                "trackSubscribedCurrent", "trackPublishAttempts", "trackPublishSuccess",
                "trackSubscribeAttempts", "trackSubscribeSuccess", "trackSubscribeUserError"}

PromNames == {"promRoomCurrent", "promRoomDuration", "promParticipantCurrent",
              "promTrackPublishedCurrent", "promTrackSubscribedCurrent",
              "promTrackPublishCounter", "promTrackSubscribeCounter"}

\* Subsystem and name of each collector (the namespace is the same for all).
FqName(var) ==
  CASE var = "promRoomCurrent" -> "room_total"
    [] var = "promRoomDuration" -> "room_duration_seconds"
    [] var = "promParticipantCurrent" -> "participant_total"
    [] var = "promTrackPublishedCurrent" -> "track_published_total"
    [] var = "promTrackSubscribedCurrent" -> "track_subscribed_total"
    [] var = "promTrackPublishCounter" -> "track_publish_counter"
    [] var = "promTrackSubscribeCounter" -> "track_subscribe_counter"

\* Upper bounds of the histogram's buckets, in seconds; bucket 11 is +Inf.
Buckets == <<5, 10, 60, 5 * 60, 10 * 60, 30 * 60, 60 * 60, 2 * 60 * 60, 5 * 60 * 60, 10 * 60 * 60>>

BucketOf(d) ==
  IF \E i \in 1..Len(Buckets) : d <= Buckets[i]
    THEN CHOOSE i \in 1..Len(Buckets) : d <= Buckets[i] /\ \A j \in 1..(i - 1) : d > Buckets[j]
    ELSE Len(Buckets) + 1

\* A GaugeVec or CounterVec: its child series, by label values.
NewVec == [lvs \in {} |-> 0]

VecValue(vec, lvs) == IF lvs \in DOMAIN vec THEN vec[lvs] ELSE 0

\* A histogram: its observation count and, per bucket that holds any, the
\* observations that fell in it.
NewHistogram == [count |-> 0, bucket |-> [i \in {} |-> 0]]

Observe(h, d) ==
  [count |-> h.count + 1,
   bucket |-> [i \in DOMAIN h.bucket \cup {BucketOf(d)} |->
                 IF i = BucketOf(d) THEN VecValue(h.bucket, i) + 1 ELSE h.bucket[i]]]

\* Mutant: Set(d) on the child where Add(d) was meant.
VecSet(vec, lvs, d) ==
  [k \in DOMAIN vec \cup {lvs} |-> IF k = lvs THEN d ELSE vec[k]]

VecAdd(vec, lvs, d) ==
  [k \in DOMAIN vec \cup {lvs} |-> IF k = lvs THEN VecValue(vec, lvs) + d ELSE vec[k]]

\* Mutant: Set(d) where Add(d) was meant.
GaugeSet(v, d) == d

GaugeAdd(v, d) == v + d

\* The collectors one initRoomStats call constructs (rooms.go:49-93).
NewCollectors ==
  [promRoomCurrent |-> 0,
   promRoomDuration |-> NewHistogram,
   promParticipantCurrent |-> 0,
   promTrackPublishedCurrent |-> NewVec,
   promTrackSubscribedCurrent |-> NewVec,
   promTrackPublishCounter |-> NewVec,
   promTrackSubscribeCounter |-> NewVec]

\* ------------------------------------------------------------------- state
VARIABLES
  mirror,    \* the nine atomic.Int32 mirrors, by name
  prom,      \* the seven package-level collector variables: the object each holds, Nil before initRoomStats
  heap,      \* heap[g]: the collectors constructed by the g-th initRoomStats call so far
  registry,  \* the default registry: the collectors registered, with their descriptors
  inits,     \* initRoomStats calls started
  pc,        \* pc[w]: the source line worker w executes next, 0 outside a call
  arg,       \* arg[w]: the call worker w is in and its arguments
  calls,     \* calls started
  panics,    \* calls that ended in a panic
  delta      \* per mirror, the sum of the +1/-1 of the calls that returned

vars == <<bits, mirror, prom, heap, registry, inits, pc, arg, calls, panics, delta>>

NoTags == [node_id |-> "", node_type |-> "", env |-> ""]

NoCall ==
  [fn |-> "", kind |-> "", startedAt |-> ZeroTime, err |-> NilError, isUserError |-> FALSE,
   tags |-> NoTags, obj |-> Nil, log |-> <<>>]

CallOf(fn) == [NoCall EXCEPT !.fn = fn]

\* The calls a worker can make: every entry point with every argument value.
Invocations ==
  {CallOf("RoomStarted"), CallOf("AddParticipant"), CallOf("SubParticipant"),
   CallOf("RecordTrackSubscribeAttempt")}
  \cup {[CallOf("RoomEnded") EXCEPT !.startedAt = t] : t \in StartTimes}
  \cup {[CallOf(fn) EXCEPT !.kind = k] :
          fn \in {"AddPublishedTrack", "SubPublishedTrack", "AddPublishAttempt",
                  "AddPublishSuccess", "RecordTrackSubscribeSuccess", "RecordTrackUnsubscribed"},
          k \in Kinds}
  \cup {[CallOf("RecordTrackSubscribeFailure") EXCEPT !.err = e, !.isUserError = u] :
          e \in Errors, u \in BOOLEAN}

InitInvocations ==
  {[CallOf("initRoomStats") EXCEPT !.tags = [node_id |-> n, node_type |-> t, env |-> e]] :
     n \in NodeIDs, t \in NodeTypes, e \in Envs}

\* Mutant: RoomEnded without its IsZero test.
FirstLineNoZeroTest(a) ==
  CASE a.fn = "initRoomStats" -> 49
    [] a.fn = "RoomStarted" -> 105
    [] a.fn = "RoomEnded" -> 111
    [] a.fn = "AddParticipant" -> 118
    [] a.fn = "SubParticipant" -> 123
    [] a.fn = "AddPublishedTrack" -> 128
    [] a.fn = "SubPublishedTrack" -> 133
    [] a.fn = "AddPublishAttempt" -> 138
    [] a.fn = "AddPublishSuccess" -> 143
    [] a.fn = "RecordTrackSubscribeSuccess" -> 149
    [] a.fn = "RecordTrackUnsubscribed" -> 159
    [] a.fn = "RecordTrackSubscribeAttempt" -> 164
    [] a.fn = "RecordTrackSubscribeFailure" -> 169

\* The first statement of each function that touches shared state.
FirstLine(a) ==
  CASE a.fn = "initRoomStats" -> 49
    [] a.fn = "RoomStarted" -> 105
    [] a.fn = "RoomEnded" -> IF a.startedAt # ZeroTime THEN 111 ELSE 113
    [] a.fn = "AddParticipant" -> 118
    [] a.fn = "SubParticipant" -> 123
    [] a.fn = "AddPublishedTrack" -> 128
    [] a.fn = "SubPublishedTrack" -> 133
    [] a.fn = "AddPublishAttempt" -> 138
    [] a.fn = "AddPublishSuccess" -> 143
    [] a.fn = "RecordTrackSubscribeSuccess" -> 149
    [] a.fn = "RecordTrackUnsubscribed" -> 159
    [] a.fn = "RecordTrackSubscribeAttempt" -> 164
    [] a.fn = "RecordTrackSubscribeFailure" -> 169

ZeroMirrors == [m \in MirrorNames |-> 0]

\* What a call is to add to each mirror: its +1/-1.
Deltas(a) ==
  CASE a.fn = "RoomStarted" -> [ZeroMirrors EXCEPT !["roomCurrent"] = 1]
    [] a.fn = "RoomEnded" -> [ZeroMirrors EXCEPT !["roomCurrent"] = -1]
    [] a.fn = "AddParticipant" -> [ZeroMirrors EXCEPT !["participantCurrent"] = 1]
    [] a.fn = "SubParticipant" -> [ZeroMirrors EXCEPT !["participantCurrent"] = -1]
    [] a.fn = "AddPublishedTrack" -> [ZeroMirrors EXCEPT !["trackPublishedCurrent"] = 1]
    [] a.fn = "SubPublishedTrack" -> [ZeroMirrors EXCEPT !["trackPublishedCurrent"] = -1]
    [] a.fn = "AddPublishAttempt" -> [ZeroMirrors EXCEPT !["trackPublishAttempts"] = 1]
    [] a.fn = "AddPublishSuccess" -> [ZeroMirrors EXCEPT !["trackPublishSuccess"] = 1]
    [] a.fn = "RecordTrackSubscribeSuccess" ->
         [ZeroMirrors EXCEPT !["trackSubscribedCurrent"] = 1, !["trackSubscribeSuccess"] = 1]
    [] a.fn = "RecordTrackUnsubscribed" -> [ZeroMirrors EXCEPT !["trackSubscribedCurrent"] = -1]
    [] a.fn = "RecordTrackSubscribeAttempt" -> [ZeroMirrors EXCEPT !["trackSubscribeAttempts"] = 1]
    [] a.fn = "RecordTrackSubscribeFailure" ->
         [ZeroMirrors EXCEPT !["trackSubscribeUserError"] = IF a.isUserError THEN 1 ELSE 0]
    [] OTHER -> ZeroMirrors

Init ==
  /\ bits = Int32Bits
  /\ mirror = ZeroMirrors
  /\ prom = [p \in PromNames |-> Nil]
  /\ heap = <<>>
  /\ registry = {}
  /\ inits = 0
  /\ pc = [w \in Workers |-> 0]
  /\ arg = [w \in Workers |-> NoCall]
  /\ calls = 0
  /\ panics = 0
  /\ delta = ZeroMirrors

\* The same program with mirrors NarrowBits wide.
InitNarrow ==
  /\ bits = NarrowBits
  /\ mirror = ZeroMirrors
  /\ prom = [p \in PromNames |-> Nil]
  /\ heap = <<>>
  /\ registry = {}
  /\ inits = 0
  /\ pc = [w \in Workers |-> 0]
  /\ arg = [w \in Workers |-> NoCall]
  /\ calls = 0
  /\ panics = 0
  /\ delta = ZeroMirrors

\* ------------------------------------------------------------ control flow
InInit == \E w \in Workers : arg[w].fn = "initRoomStats"

\* Worker w calls an event entry point.
Invoke(w) ==
  /\ pc[w] = 0
  /\ calls < MaxCalls
  /\ ~InInit
  /\ \E a \in Invocations :
       /\ pc' = [pc EXCEPT ![w] = FirstLine(a)]
       /\ arg' = [arg EXCEPT ![w] = a]
  /\ calls' = calls + 1
  /\ UNCHANGED <<bits, mirror, prom, heap, registry, inits, panics, delta>>

\* Worker w calls initRoomStats; the objects it will construct are those of a new generation.
InvokeInit(w) ==
  /\ \A v \in Workers : pc[v] = 0
  /\ calls < MaxCalls
  /\ \E a \in InitInvocations :
       /\ pc' = [pc EXCEPT ![w] = FirstLine(a)]
       /\ arg' = [arg EXCEPT ![w] = [a EXCEPT !.obj = inits + 1]]
  /\ calls' = calls + 1
  /\ inits' = inits + 1
  /\ heap' = Append(heap, NewCollectors)
  /\ UNCHANGED <<bits, mirror, prom, registry, panics, delta>>

\* The closing brace of each function.
ReturnLine(fn) ==
  CASE fn = "initRoomStats" -> 102
    [] fn = "RoomStarted" -> 107
    [] fn = "RoomEnded" -> 115
    [] fn = "AddParticipant" -> 120
    [] fn = "SubParticipant" -> 125
    [] fn = "AddPublishedTrack" -> 130
    [] fn = "SubPublishedTrack" -> 135
    [] fn = "AddPublishAttempt" -> 140
    [] fn = "AddPublishSuccess" -> 145
    [] fn = "RecordTrackSubscribeSuccess" -> 154
    [] fn = "RecordTrackUnsubscribed" -> 161
    [] fn = "RecordTrackSubscribeAttempt" -> 166
    [] fn = "RecordTrackSubscribeFailure" -> 174

EventFns ==
  {"RoomStarted", "RoomEnded", "AddParticipant", "SubParticipant", "AddPublishedTrack",
   "SubPublishedTrack", "AddPublishAttempt", "AddPublishSuccess", "RecordTrackSubscribeSuccess",
   "RecordTrackUnsubscribed", "RecordTrackSubscribeAttempt", "RecordTrackSubscribeFailure"}

AtReturn(w) == arg[w].fn # "" /\ pc[w] = ReturnLine(arg[w].fn)

\* The call of worker w returns.
Return(w) ==
  /\ AtReturn(w)
  /\ pc' = [pc EXCEPT ![w] = 0]
  /\ arg' = [arg EXCEPT ![w] = NoCall]
  /\ delta' = [m \in MirrorNames |-> delta[m] + Deltas(arg[w])[m]]
  /\ UNCHANGED <<bits, mirror, prom, heap, registry, inits, calls, panics>>

\* The statement at pc[w] panics: the call ends there.
Panic(w) ==
  /\ pc' = [pc EXCEPT ![w] = 0]
  /\ arg' = [arg EXCEPT ![w] = NoCall]
  /\ panics' = panics + 1
  /\ UNCHANGED <<bits, mirror, prom, heap, registry, inits, calls, delta>>

\* The statement at pc[w] is done, having moved what `moved` says: on to line next.
Advance(w, moved, next) ==
  /\ pc' = [pc EXCEPT ![w] = next]
  /\ arg' = [arg EXCEPT ![w].log = Append(@, moved)]

\* The object a collector variable holds.
Obj(var) == heap[prom[var]][var]

Moved(var, lvs, d) == [var |-> var, lvs |-> lvs, d |-> d]

\* The series of collector `var` that differ between its values old and new, with
\* the difference: of the value (a gauge, a counter) or of the observation count.
SeriesMoved(var, old, new) ==
  CASE var \in {"promRoomCurrent", "promParticipantCurrent"} ->
         IF new = old THEN {} ELSE {Moved(var, <<>>, new - old)}
    [] var = "promRoomDuration" ->
         IF new = old THEN {} ELSE {Moved(var, <<>>, new.count - old.count)}
    [] OTHER ->
         {Moved(var, k, VecValue(new, k) - VecValue(old, k)) :
            k \in {x \in DOMAIN old \cup DOMAIN new : VecValue(new, x) # VecValue(old, x)}}

\* A statement `var.<method>(...)`: a nil collector variable panics, else the
\* object the variable holds takes the value new.
UpdateSeries(w, var, new, next) ==
  IF prom[var] = Nil
    THEN Panic(w)
    ELSE /\ heap' = [heap EXCEPT ![prom[var]][var] = new]
         /\ Advance(w, SeriesMoved(var, Obj(var), new), next)
         /\ UNCHANGED <<bits, mirror, prom, registry, inits, calls, panics, delta>>

\* A statement `name.Inc()` or `name.Dec()` on a mirror.
UpdateMirror(w, name, new, next) ==
  /\ mirror' = [mirror EXCEPT ![name] = new]
  /\ Advance(w, IF new = mirror[name] THEN {} ELSE {Moved(name, <<>>, new - mirror[name])}, next)
  /\ UNCHANGED <<bits, prom, heap, registry, inits, calls, panics, delta>>

\* ------------------------------------------------------------ entry points
RoomStarted(w) ==
  \/ /\ pc[w] = 105
     /\ UpdateSeries(w, "promRoomCurrent", GaugeAdd(Obj("promRoomCurrent"), 1), 106)
  \/ /\ pc[w] = 106
     /\ UpdateMirror(w, "roomCurrent", Inc32(mirror.roomCurrent), 107)

RoomEnded(w) ==
  \/ /\ pc[w] = 111
     /\ \E d \in ElapsedSeconds :
          UpdateSeries(w, "promRoomDuration", Observe(Obj("promRoomDuration"), d), 113)
  \/ /\ pc[w] = 113
     /\ UpdateSeries(w, "promRoomCurrent", GaugeAdd(Obj("promRoomCurrent"), -1), 114)
  \/ /\ pc[w] = 114
     /\ UpdateMirror(w, "roomCurrent", Dec32(mirror.roomCurrent), 115)

AddParticipant(w) ==
  \/ /\ pc[w] = 118
     /\ UpdateSeries(w, "promParticipantCurrent", GaugeAdd(Obj("promParticipantCurrent"), 1), 119)
  \/ /\ pc[w] = 119
     /\ UpdateMirror(w, "participantCurrent", Inc32(mirror.participantCurrent), 120)

SubParticipant(w) ==
  \/ /\ pc[w] = 123
     /\ UpdateSeries(w, "promParticipantCurrent", GaugeAdd(Obj("promParticipantCurrent"), -1), 124)
  \/ /\ pc[w] = 124
     /\ UpdateMirror(w, "participantCurrent", Dec32(mirror.participantCurrent), 125)

AddPublishedTrack(w) ==
  \/ /\ pc[w] = 128
     /\ UpdateSeries(w, "promTrackPublishedCurrent",
                     VecAdd(Obj("promTrackPublishedCurrent"), <<arg[w].kind>>, 1), 129)
  \/ /\ pc[w] = 129
     /\ UpdateMirror(w, "trackPublishedCurrent", Inc32(mirror.trackPublishedCurrent), 130)

SubPublishedTrack(w) ==
  \/ /\ pc[w] = 133
     /\ UpdateSeries(w, "promTrackPublishedCurrent",
                     VecAdd(Obj("promTrackPublishedCurrent"), <<arg[w].kind>>, -1), 134)
  \/ /\ pc[w] = 134
     /\ UpdateMirror(w, "trackPublishedCurrent", Dec32(mirror.trackPublishedCurrent), 135)

\* Mutant: the publish-attempt counter incremented before its mirror.
AddPublishAttemptCounterFirst(w) ==
  \/ /\ pc[w] = 138
     /\ UpdateSeries(w, "promTrackPublishCounter",
                     VecAdd(Obj("promTrackPublishCounter"), <<arg[w].kind, "attempt">>, 1), 139)
  \/ /\ pc[w] = 139
     /\ UpdateMirror(w, "trackPublishAttempts", Inc32(mirror.trackPublishAttempts), 140)

AddPublishAttempt(w) ==
  \/ /\ pc[w] = 138
     /\ UpdateMirror(w, "trackPublishAttempts", Inc32(mirror.trackPublishAttempts), 139)
  \/ /\ pc[w] = 139
     /\ UpdateSeries(w, "promTrackPublishCounter",
                     VecAdd(Obj("promTrackPublishCounter"), <<arg[w].kind, "attempt">>, 1), 140)

\* Mutant: a publish success counted in the series of state "attempt".
AddPublishSuccessAsAttempt(w) ==
  \/ /\ pc[w] = 143
     /\ UpdateMirror(w, "trackPublishSuccess", Inc32(mirror.trackPublishSuccess), 144)
  \/ /\ pc[w] = 144
     /\ UpdateSeries(w, "promTrackPublishCounter",
                     VecAdd(Obj("promTrackPublishCounter"), <<arg[w].kind, "attempt">>, 1), 145)

AddPublishSuccess(w) ==
  \/ /\ pc[w] = 143
     /\ UpdateMirror(w, "trackPublishSuccess", Inc32(mirror.trackPublishSuccess), 144)
  \/ /\ pc[w] = 144
     /\ UpdateSeries(w, "promTrackPublishCounter",
                     VecAdd(Obj("promTrackPublishCounter"), <<arg[w].kind, "success">>, 1), 145)

\* Mutant: a success also counts as an attempt in the mirror.
RecordTrackSubscribeSuccessAsAttempt(w) ==
  \/ /\ pc[w] = 149
     /\ UpdateSeries(w, "promTrackSubscribedCurrent",
                     VecAdd(Obj("promTrackSubscribedCurrent"), <<arg[w].kind>>, 1), 150)
  \/ /\ pc[w] = 150
     /\ UpdateMirror(w, "trackSubscribeAttempts", Inc32(mirror.trackSubscribeAttempts), 152)
  \/ /\ pc[w] = 152
     /\ UpdateSeries(w, "promTrackSubscribeCounter",
                     VecAdd(Obj("promTrackSubscribeCounter"), <<"success", "">>, 1), 153)
  \/ /\ pc[w] = 153
     /\ UpdateMirror(w, "trackSubscribeSuccess", Inc32(mirror.trackSubscribeSuccess), 154)

\* Mutant: the success mirror incremented before the success counter.
RecordTrackSubscribeSuccessMirrorFirst(w) ==
  \/ /\ pc[w] = 149
     /\ UpdateSeries(w, "promTrackSubscribedCurrent",
                     VecAdd(Obj("promTrackSubscribedCurrent"), <<arg[w].kind>>, 1), 150)
  \/ /\ pc[w] = 150
     /\ UpdateMirror(w, "trackSubscribedCurrent", Inc32(mirror.trackSubscribedCurrent), 152)
  \/ /\ pc[w] = 152
     /\ UpdateMirror(w, "trackSubscribeSuccess", Inc32(mirror.trackSubscribeSuccess), 153)
  \/ /\ pc[w] = 153
     /\ UpdateSeries(w, "promTrackSubscribeCounter",
                     VecAdd(Obj("promTrackSubscribeCounter"), <<"success", "">>, 1), 154)

RecordTrackSubscribeSuccess(w) ==
  \/ /\ pc[w] = 149
     /\ UpdateSeries(w, "promTrackSubscribedCurrent",
                     VecAdd(Obj("promTrackSubscribedCurrent"), <<arg[w].kind>>, 1), 150)
  \/ /\ pc[w] = 150
     /\ UpdateMirror(w, "trackSubscribedCurrent", Inc32(mirror.trackSubscribedCurrent), 152)
  \/ /\ pc[w] = 152
     /\ UpdateSeries(w, "promTrackSubscribeCounter",
                     VecAdd(Obj("promTrackSubscribeCounter"), <<"success", "">>, 1), 153)
  \/ /\ pc[w] = 153
     /\ UpdateMirror(w, "trackSubscribeSuccess", Inc32(mirror.trackSubscribeSuccess), 154)

\* Mutant: the unsubscribe takes 1 off the success total instead of the current count.
RecordTrackUnsubscribedTotal(w) ==
  \/ /\ pc[w] = 159
     /\ UpdateSeries(w, "promTrackSubscribedCurrent",
                     VecAdd(Obj("promTrackSubscribedCurrent"), <<arg[w].kind>>, -1), 160)
  \/ /\ pc[w] = 160
     /\ UpdateMirror(w, "trackSubscribeSuccess", Dec32(mirror.trackSubscribeSuccess), 161)

\* Mutant: the unsubscribe takes the subscription back out of the success counter.
RecordTrackUnsubscribedCounter(w) ==
  \/ /\ pc[w] = 159
     /\ UpdateSeries(w, "promTrackSubscribeCounter",
                     VecAdd(Obj("promTrackSubscribeCounter"), <<"success", "">>, -1), 160)
  \/ /\ pc[w] = 160
     /\ UpdateMirror(w, "trackSubscribedCurrent", Dec32(mirror.trackSubscribedCurrent), 161)

RecordTrackUnsubscribed(w) ==
  \/ /\ pc[w] = 159
     /\ UpdateSeries(w, "promTrackSubscribedCurrent",
                     VecAdd(Obj("promTrackSubscribedCurrent"), <<arg[w].kind>>, -1), 160)
  \/ /\ pc[w] = 160
     /\ UpdateMirror(w, "trackSubscribedCurrent", Dec32(mirror.trackSubscribedCurrent), 161)

\* Mutant: the attempt is counted in the mirror only.
RecordTrackSubscribeAttemptMirrorOnly(w) ==
  /\ pc[w] = 164
  /\ UpdateMirror(w, "trackSubscribeAttempts", Inc32(mirror.trackSubscribeAttempts), 166)

RecordTrackSubscribeAttempt(w) ==
  \/ /\ pc[w] = 164
     /\ UpdateMirror(w, "trackSubscribeAttempts", Inc32(mirror.trackSubscribeAttempts), 165)
  \/ /\ pc[w] = 165
     /\ UpdateSeries(w, "promTrackSubscribeCounter",
                     VecAdd(Obj("promTrackSubscribeCounter"), <<"attempt", "">>, 1), 166)

\* Mutant: every failure is counted as a user error.
RecordTrackSubscribeFailureAllUser(w) ==
  \/ /\ pc[w] = 169
     /\ IF arg[w].err.isNil
          THEN Panic(w)
          ELSE UpdateSeries(w, "promTrackSubscribeCounter",
                            VecAdd(Obj("promTrackSubscribeCounter"), <<"failure", arg[w].err.msg>>, 1),
                            172)
  \/ /\ pc[w] = 172
     /\ UpdateMirror(w, "trackSubscribeUserError", Inc32(mirror.trackSubscribeUserError), 174)

\* Mutant: a user error is counted in the attempt mirror.
RecordTrackSubscribeFailureAsAttempt(w) ==
  \/ /\ pc[w] = 169
     /\ IF arg[w].err.isNil
          THEN Panic(w)
          ELSE UpdateSeries(w, "promTrackSubscribeCounter",
                            VecAdd(Obj("promTrackSubscribeCounter"), <<"failure", arg[w].err.msg>>, 1),
                            IF arg[w].isUserError THEN 172 ELSE 174)
  \/ /\ pc[w] = 172
     /\ UpdateMirror(w, "trackSubscribeAttempts", Inc32(mirror.trackSubscribeAttempts), 174)

\* err.Error() on a nil error is a nil dereference: it panics before WithLabelValues is called.
\* Mutant: the label values given in the order (error, state).
RecordTrackSubscribeFailureSwapped(w) ==
  \/ /\ pc[w] = 169
     /\ IF arg[w].err.isNil
          THEN Panic(w)
          ELSE UpdateSeries(w, "promTrackSubscribeCounter",
                            VecAdd(Obj("promTrackSubscribeCounter"), <<arg[w].err.msg, "failure">>, 1),
                            IF arg[w].isUserError THEN 172 ELSE 174)
  \/ /\ pc[w] = 172
     /\ UpdateMirror(w, "trackSubscribeUserError", Inc32(mirror.trackSubscribeUserError), 174)

RecordTrackSubscribeFailure(w) ==
  \/ /\ pc[w] = 169
     /\ IF arg[w].err.isNil
          THEN Panic(w)
          ELSE UpdateSeries(w, "promTrackSubscribeCounter",
                            VecAdd(Obj("promTrackSubscribeCounter"), <<"failure", arg[w].err.msg>>, 1),
                            IF arg[w].isUserError THEN 172 ELSE 174)
  \/ /\ pc[w] = 172
     /\ UpdateMirror(w, "trackSubscribeUserError", Inc32(mirror.trackSubscribeUserError), 174)

\* --------------------------------------------------------- initRoomStats
\* The variable each construction assigns, and the line after it.
CtorVar(line) ==
  CASE line = 49 -> "promRoomCurrent"
    [] line = 55 -> "promRoomDuration"
    [] line = 64 -> "promParticipantCurrent"
    [] line = 70 -> "promTrackPublishedCurrent"
    [] line = 76 -> "promTrackSubscribedCurrent"
    [] line = 82 -> "promTrackPublishCounter"
    [] line = 88 -> "promTrackSubscribeCounter"

CtorNext(line) ==
  CASE line = 49 -> 55 [] line = 55 -> 64 [] line = 64 -> 70 [] line = 70 -> 76
    [] line = 76 -> 82 [] line = 82 -> 88 [] line = 88 -> 95

\* The variable each MustRegister call reads.
RegisterVar(line) ==
  CASE line = 95 -> "promRoomCurrent"
    [] line = 96 -> "promRoomDuration"
    [] line = 97 -> "promParticipantCurrent"
    [] line = 98 -> "promTrackPublishedCurrent"
    [] line = 99 -> "promTrackSubscribedCurrent"
    [] line = 100 -> "promTrackPublishCounter"
    [] line = 101 -> "promTrackSubscribeCounter"

\* Registry.Register refuses a collector whose descriptor (fully-qualified name
\* and const label values) is one already registered.
AlreadyRegistered(reg, fqName, constLabels) ==
  \E c \in reg : c.fqName = fqName /\ c.constLabels = constLabels

initRoomStats(w) ==
  \/ /\ pc[w] \in {49, 55, 64, 70, 76, 82, 88}
     /\ prom' = [prom EXCEPT ![CtorVar(pc[w])] = arg[w].obj]
     /\ pc' = [pc EXCEPT ![w] = CtorNext(pc[w])]
     /\ UNCHANGED arg
     /\ UNCHANGED <<bits, mirror, heap, registry, inits, calls, panics, delta>>
  \/ /\ pc[w] \in 95..101
     /\ LET var == RegisterVar(pc[w]) IN
        IF AlreadyRegistered(registry, FqName(var), arg[w].tags)
          THEN Panic(w)
          ELSE /\ registry' = registry \cup
                    {[fqName |-> FqName(var), constLabels |-> arg[w].tags, obj |-> prom[var]]}
               /\ pc' = [pc EXCEPT ![w] = pc[w] + 1]
               /\ UNCHANGED arg
               /\ UNCHANGED <<bits, mirror, prom, heap, inits, calls, panics, delta>>

Next ==
  \E w \in Workers :
    \/ Invoke(w)
    \/ InvokeInit(w)
    \/ Return(w)
    \/ initRoomStats(w)
    \/ RoomStarted(w)
    \/ RoomEnded(w)
    \/ AddParticipant(w)
    \/ SubParticipant(w)
    \/ AddPublishedTrack(w)
    \/ SubPublishedTrack(w)
    \/ AddPublishAttempt(w)
    \/ AddPublishSuccess(w)
    \/ RecordTrackSubscribeSuccess(w)
    \/ RecordTrackUnsubscribed(w)
    \/ RecordTrackSubscribeAttempt(w)
    \/ RecordTrackSubscribeFailure(w)

Spec == Init /\ [][Next]_vars

SpecNarrow == InitNarrow /\ [][Next]_vars

\* ------------------------------------------------------ what is observed
Quiescent == \A w \in Workers : pc[w] = 0

\* The collector a package-level variable holds; before initRoomStats there is
\* none, and nothing is exported: every series reads 0.
Series(var) == IF prom[var] = Nil THEN NewCollectors[var] ELSE Obj(var)

room_total == Series("promRoomCurrent")

participant_total == Series("promParticipantCurrent")

room_duration_count == Series("promRoomDuration").count

published_total(kind) == VecValue(Series("promTrackPublishedCurrent"), <<kind>>)

subscribed_total(kind) == VecValue(Series("promTrackSubscribedCurrent"), <<kind>>)

publish_counter(kind, state) == VecValue(Series("promTrackPublishCounter"), <<kind, state>>)

subscribe_counter(state, error) == VecValue(Series("promTrackSubscribeCounter"), <<state, error>>)

RECURSIVE SumOver(_, _)
SumOver(vec, keys) ==
  IF keys = {} THEN 0
  ELSE LET k == CHOOSE x \in keys : TRUE IN vec[k] + SumOver(vec, keys \ {k})

\* subscribe_counter{state="failure"}, summed over the error label.
subscribe_failures ==
  LET vec == Series("promTrackSubscribeCounter")
  IN SumOver(vec, {k \in DOMAIN vec : k[1] = "failure"})

\* Workers whose next statement is the one at `line`.
At(line) == {w \in Workers : pc[w] = line}

\* What the call of worker w has moved so far.
MovedBy(w) == UNION {arg[w].log[i] : i \in DOMAIN arg[w].log}

\* The facade is used as documented as far as initialisation goes:
\* initRoomStats has been called at most once.
InitAtMostOnce == inits <= 1

\* ------------------------------------------------------------------ claims

\* C1: no lost updates.  Once every call made has returned (none is in flight,
\* none ended in a panic), each of the nine mirrors equals the sum of the +1/-1
\* of the calls that target it, whatever the interleaving was.
C1_NoLostUpdates == (Quiescent /\ panics = 0) => mirror = delta

\* Two calls on different mirrors have returned after initialisation.
C1_Witness ==
  /\ Quiescent /\ panics = 0 /\ inits = 1
  /\ mirror.roomCurrent = 1 /\ mirror.participantCurrent = -1

\* C2: room_total and roomCurrent (participant_total and participantCurrent)
\* differ exactly by the calls that stand between their gauge update and their
\* mirror update, so they are equal once all calls have completed.
C2_GaugeMirrorsConverge ==
  InitAtMostOnce =>
    /\ room_total - mirror.roomCurrent = Cardinality(At(106)) - Cardinality(At(114))
    /\ participant_total - mirror.participantCurrent = Cardinality(At(119)) - Cardinality(At(124))

\* Calls have completed and left both gauges away from 0.
C2_Witness ==
  /\ Quiescent /\ inits = 1
  /\ room_total = -1 /\ mirror.roomCurrent = -1
  /\ participant_total = 1 /\ mirror.participantCurrent = 1

\* C3 as stated: subscribe_counter{state="success", error=""} equals the
\* trackSubscribeSuccess mirror in every reachable state (here even granting
\* that initRoomStats is called at most once).
C3_AlwaysEqual ==
  InitAtMostOnce => subscribe_counter("success", "") = mirror.trackSubscribeSuccess

\* C3 amended: subscribe_counter{state="success", error=""} equals the
\* trackSubscribeSuccess mirror in every state in which no
\* RecordTrackSubscribeSuccess call stands between its counter increment
\* (line 152) and its mirror increment (line 153).
C3_EqualOutsideSuccessCalls ==
  (InitAtMostOnce /\ At(153) = {}) =>
    subscribe_counter("success", "") = mirror.trackSubscribeSuccess

\* Two subscribe successes have been recorded and have returned.
C3_Witness ==
  /\ Quiescent /\ inits = 1
  /\ mirror.trackSubscribeSuccess = 2 /\ subscribe_counter("success", "") = 2

\* C4: trackSubscribeUserError never exceeds subscribe_counter{state="failure"}
\* summed over the error label, and it changes only in the step of a
\* RecordTrackSubscribeFailure call whose isUserError argument is true.
C4_UserErrorBounded ==
  /\ [](InitAtMostOnce => mirror.trackSubscribeUserError <= subscribe_failures)
  /\ [][mirror.trackSubscribeUserError' # mirror.trackSubscribeUserError =>
          \E w \in Workers :
            /\ arg[w].fn = "RecordTrackSubscribeFailure"
            /\ arg[w].isUserError
            /\ pc[w] = 172 /\ pc'[w] = 174]_vars

\* A user error and another failure with another message have been recorded.
C4_Witness ==
  /\ mirror.trackSubscribeUserError = 1
  /\ subscribe_counter("failure", "denied") = 1
  /\ subscribe_counter("failure", "timeout") = 1

\* C5 as stated: every event entry point call moves at least one mirror and at
\* least one exported series (checked where the call is about to return).
C5_BothUpdatesAlways ==
  \A w \in Workers :
    (arg[w].fn \in EventFns /\ AtReturn(w)) =>
      /\ \E e \in MovedBy(w) : e.var \in MirrorNames
      /\ \E e \in MovedBy(w) : e.var \in PromNames

\* C5 amended: every event entry point call that returns has moved at least one
\* exported series; it has moved at least one mirror too, except a
\* RecordTrackSubscribeFailure call with isUserError false, which moves none.
C5_SeriesAlwaysMirrorUnlessPlainFailure ==
  \A w \in Workers :
    (arg[w].fn \in EventFns /\ AtReturn(w)) =>
      /\ \E e \in MovedBy(w) : e.var \in PromNames
      /\ (\E e \in MovedBy(w) : e.var \in MirrorNames)
           <=> ~(arg[w].fn = "RecordTrackSubscribeFailure" /\ ~arg[w].isUserError)

\* A failure that is not a user error is about to return.
C5_Witness ==
  \E w \in Workers :
    /\ arg[w].fn = "RecordTrackSubscribeFailure" /\ ~arg[w].isUserError
    /\ AtReturn(w)

\* C6 as stated: once initRoomStats has run, no step of an event entry point
\* panics, whatever the arguments.
C6_EventsNeverPanic ==
  [][\A w \in Workers :
       (inits >= 1 /\ arg[w].fn \in EventFns /\ pc'[w] # pc[w]) => panics' = panics]_vars

\* C7 as stated: a second initRoomStats call faults or is a no-op.  One that
\* reaches its return has not faulted, so none of the collectors it constructed
\* is in the registry, which holds each of the seven names once.
C7_SecondInitFaultsOrNoOp ==
  \A w \in Workers :
    (arg[w].fn = "initRoomStats" /\ arg[w].obj > 1 /\ AtReturn(w)) =>
      /\ \A c \in registry : c.obj # arg[w].obj
      /\ \A c, d \in registry : c.fqName = d.fqName => c = d

\* C8: RoomEnded with a zero startedAt records no observation and takes 1 off
\* room_total and then off roomCurrent; with a non-zero startedAt it first
\* records exactly one observation.  Nothing else is moved by the call.
C8_RoomEnded ==
  \A w \in Workers :
    (arg[w].fn = "RoomEnded" /\ AtReturn(w)) =>
      arg[w].log =
        (IF arg[w].startedAt = ZeroTime THEN <<>>
         ELSE <<{Moved("promRoomDuration", <<>>, 1)}>>)
        \o <<{Moved("promRoomCurrent", <<>>, -1)}, {Moved("roomCurrent", <<>>, -1)}>>

\* A RoomEnded with a zero startedAt and one with a non-zero startedAt are both
\* about to return.
C8_Witness ==
  \E v, w \in Workers :
    /\ arg[v].fn = "RoomEnded" /\ arg[v].startedAt = ZeroTime /\ AtReturn(v)
    /\ arg[w].fn = "RoomEnded" /\ arg[w].startedAt # ZeroTime /\ AtReturn(w)

\* C9: RecordTrackUnsubscribed(kind) takes exactly 1 off subscribed_total{kind}
\* and off trackSubscribedCurrent and moves nothing else: no subscribe_counter
\* series, no other mirror, no other kind.
C9_Unsubscribed ==
  \A w \in Workers :
    (arg[w].fn = "RecordTrackUnsubscribed" /\ AtReturn(w)) =>
      arg[w].log = <<{Moved("promTrackSubscribedCurrent", <<arg[w].kind>>, -1)},
                     {Moved("trackSubscribedCurrent", <<>>, -1)}>>

\* An unsubscribe is about to return after a subscribe success of the other kind.
C9_Witness ==
  \E w \in Workers :
    /\ arg[w].fn = "RecordTrackUnsubscribed" /\ arg[w].kind = "video" /\ AtReturn(w)
    /\ subscribed_total("video") = -1 /\ subscribed_total("audio") = 1
    /\ subscribe_counter("success", "") = 1

\* C10: RecordTrackSubscribeFailure(err, isUserError) adds 1 to
\* subscribe_counter{state="failure", error=err.Error()}, adds 1 to
\* trackSubscribeUserError exactly when isUserError is true, and moves nothing
\* else: no attempt or success mirror, no gauge.
C10_SubscribeFailure ==
  \A w \in Workers :
    (arg[w].fn = "RecordTrackSubscribeFailure" /\ AtReturn(w)) =>
      arg[w].log =
        <<{Moved("promTrackSubscribeCounter", <<"failure", arg[w].err.msg>>, 1)}>>
        \o (IF arg[w].isUserError THEN <<{Moved("trackSubscribeUserError", <<>>, 1)}>>
            ELSE <<>>)

\* A user-error failure and a plain failure are both about to return.
C10_Witness ==
  \E v, w \in Workers :
    /\ arg[v].fn = "RecordTrackSubscribeFailure" /\ arg[v].isUserError /\ AtReturn(v)
    /\ arg[w].fn = "RecordTrackSubscribeFailure" /\ ~arg[w].isUserError /\ AtReturn(w)
\* The two counter vectors.
CounterVars == {"promTrackPublishCounter", "promTrackSubscribeCounter"}

\* C11: no step ever takes a publish_counter{kind, state} or a
\* subscribe_counter{state, error} series below its previous value (nor removes
\* one): the counters of every collector constructed only grow.  The gauges
\* and their mirrors go both ways (the witness).
C11_CountersNeverDecrease ==
  [][\A g \in DOMAIN heap : \A var \in CounterVars : \A k \in DOMAIN heap[g][var] :
       k \in DOMAIN heap'[g][var] /\ heap'[g][var][k] >= heap[g][var][k]]_vars

\* A subscription was counted and an unsubscribe took a gauge below 0 under it:
\* one gauge has gone up, one down, the counter stands.
C11_Witness ==
  /\ Quiescent
  /\ subscribe_counter("success", "") = 1
  /\ subscribed_total("audio") = 1 /\ subscribed_total("video") = -1
  /\ mirror.trackSubscribedCurrent = 0 /\ mirror.trackSubscribeSuccess = 1

\* C12: RecordTrackSubscribeSuccess moves subscribed_total{kind}, the
\* trackSubscribedCurrent mirror, subscribe_counter{"success", ""} and the
\* trackSubscribeSuccess mirror, by +1 each, and neither the attempt mirror nor
\* the attempt counter; so successes can outnumber attempts (the witness).
C12_SuccessLeavesAttempts ==
  \A w \in Workers :
    (arg[w].fn = "RecordTrackSubscribeSuccess" /\ AtReturn(w)) =>
      arg[w].log = <<{Moved("promTrackSubscribedCurrent", <<arg[w].kind>>, 1)},
                     {Moved("trackSubscribedCurrent", <<>>, 1)},
                     {Moved("promTrackSubscribeCounter", <<"success", "">>, 1)},
                     {Moved("trackSubscribeSuccess", <<>>, 1)}>>

\* After a proper start and with no call in flight, more successes than
\* attempts stand in the mirrors and in the counter.
C12_Witness ==
  /\ Quiescent /\ inits = 1 /\ panics = 0
  /\ mirror.trackSubscribeSuccess > mirror.trackSubscribeAttempts
  /\ subscribe_counter("success", "") > subscribe_counter("attempt", "")

\* The statements that take 1 off a gauge and off a mirror, and their targets.
DecGaugeLines == {113, 123, 133, 159}

DecMirrorLines == {114, 124, 134, 160}

DecTarget(line) ==
  CASE line = 113 -> "promRoomCurrent"
    [] line = 114 -> "roomCurrent"
    [] line = 123 -> "promParticipantCurrent"
    [] line = 124 -> "participantCurrent"
    [] line = 133 -> "promTrackPublishedCurrent"
    [] line = 134 -> "trackPublishedCurrent"
    [] line = 159 -> "promTrackSubscribedCurrent"
    [] line = 160 -> "trackSubscribedCurrent"

\* The gauge series the decrement at pc[w] is about.
DecGauge(w) ==
  IF pc[w] \in {133, 159}
    THEN VecValue(Series(DecTarget(pc[w])), <<arg[w].kind>>)
    ELSE Series(DecTarget(pc[w]))

\* C13: decrementing is neither detected nor clamped.  Each decrement
\* statement of RoomEnded, SubParticipant, SubPublishedTrack and
\* RecordTrackUnsubscribed, run on constructed series, goes on to the next line
\* without a fault and leaves its gauge, then its mirror, at the previous value
\* minus 1, whatever that value was: zero and negative values included.
C13_DecrementNotClamped ==
  [][\A w \in Workers :
       /\ (pc[w] \in DecGaugeLines /\ pc'[w] # pc[w] /\ prom[DecTarget(pc[w])] # Nil) =>
            /\ pc'[w] = pc[w] + 1 /\ panics' = panics
            /\ heap'[prom[DecTarget(pc[w])]][DecTarget(pc[w])] =
                 (IF pc[w] \in {133, 159}
                    THEN VecAdd(Obj(DecTarget(pc[w])), <<arg[w].kind>>, -1)
                    ELSE DecGauge(w) - 1)
       /\ (pc[w] \in DecMirrorLines /\ pc'[w] # pc[w] /\ mirror[DecTarget(pc[w])] > MinInt32) =>
            /\ pc'[w] = pc[w] + 1 /\ panics' = panics
            /\ mirror'[DecTarget(pc[w])] = mirror[DecTarget(pc[w])] - 1]_vars

\* A decrementing call made when its gauge and mirror were 0 is about to return
\* normally, both standing at -1.
C13_Witness ==
  \E w \in Workers :
    /\ arg[w].fn = "SubPublishedTrack" /\ AtReturn(w)
    /\ \A v \in Workers \ {w} : pc[v] = 0
    /\ inits = 1 /\ panics = 0 /\ delta = ZeroMirrors
    /\ published_total(arg[w].kind) = -1
    /\ mirror.trackPublishedCurrent = -1

\* The label values of the series that exist in any collector ever constructed.
SubscribeSeries == UNION {DOMAIN heap[g]["promTrackSubscribeCounter"] : g \in DOMAIN heap}

PublishSeries == UNION {DOMAIN heap[g]["promTrackPublishCounter"] : g \in DOMAIN heap}

\* C14: the label vocabulary.  Every subscribe_counter series has state
\* "attempt", "success" or "failure"; with "attempt" or "success" its error label
\* is the empty string; a "failure" series moves only by the statement at line
\* 169 of a RecordTrackSubscribeFailure call whose err has that series' error
\* label as its message.  Every publish_counter series has a kind the caller
\* gave and state "attempt" or "success".
C14_LabelVocabulary ==
  /\ [](/\ \A k \in SubscribeSeries :
             /\ k[1] \in {"attempt", "success", "failure"}
             /\ k[1] \in {"attempt", "success"} => k[2] = ""
        /\ \A k \in PublishSeries : k[1] \in Kinds /\ k[2] \in {"attempt", "success"})
  /\ [][\A g \in DOMAIN heap :
          \A k \in DOMAIN heap'[g]["promTrackSubscribeCounter"] :
            (/\ k[1] = "failure"
             /\ heap'[g]["promTrackSubscribeCounter"][k]
                  # VecValue(heap[g]["promTrackSubscribeCounter"], k)) =>
              \E w \in Workers :
                /\ pc[w] = 169 /\ pc'[w] # 169
                /\ arg[w].fn = "RecordTrackSubscribeFailure"
                /\ ~arg[w].err.isNil /\ arg[w].err.msg = k[2]]_vars

\* A failure series with the caller's message stands next to an attempt series
\* with the empty error label.
C14_Witness ==
  /\ Quiescent /\ inits = 1
  /\ SubscribeSeries = {<<"attempt", "">>, <<"failure", "denied">>}
  /\ subscribe_counter("failure", "denied") = 1

\* A labelled collector summed over all its series, and the publish counter
\* summed over kind for one state.
SumOfSeries(var) == SumOver(Series(var), DOMAIN Series(var))

publish_counter_sum(state) ==
  LET vec == Series("promTrackPublishCounter")
  IN SumOver(vec, {k \in DOMAIN vec : k[2] = state})

\* C15: with initRoomStats called at most once, no call in flight and none
\* ended in a fault, each mirror that shadows a labelled series equals the sum
\* of that series over its labels, whatever kinds the calls were made with.
C15_MirrorIsSumOverLabels ==
  (Quiescent /\ InitAtMostOnce /\ panics = 0) =>
    /\ mirror.trackPublishedCurrent = SumOfSeries("promTrackPublishedCurrent")
    /\ mirror.trackSubscribedCurrent = SumOfSeries("promTrackSubscribedCurrent")
    /\ mirror.trackPublishAttempts = publish_counter_sum("attempt")
    /\ mirror.trackPublishSuccess = publish_counter_sum("success")
    /\ mirror.trackSubscribeAttempts = subscribe_counter("attempt", "")

\* Two publish attempts of different kinds have returned: one series each, the
\* mirror holds their sum.
C15_Witness ==
  /\ Quiescent /\ inits = 1 /\ panics = 0
  /\ publish_counter("audio", "attempt") = 1 /\ publish_counter("video", "attempt") = 1
  /\ mirror.trackPublishAttempts = 2

\* C16: with initRoomStats called at most once and no call ended in a fault,
\* in every state, calls in flight included, the success counter is ahead of
\* its mirror by at most the RecordTrackSubscribeSuccess calls that stand
\* between lines 152 and 153 and never behind it; the attempt mirror is ahead of
\* its counter by at most the RecordTrackSubscribeAttempt calls that stand
\* between lines 164 and 165 and never behind it.
C16_BoundedSignedDivergence ==
  (InitAtMostOnce /\ panics = 0) =>
    /\ 0 <= subscribe_counter("success", "") - mirror.trackSubscribeSuccess
    /\ subscribe_counter("success", "") - mirror.trackSubscribeSuccess <= Cardinality(At(153))
    /\ 0 <= mirror.trackSubscribeAttempts - subscribe_counter("attempt", "")
    /\ mirror.trackSubscribeAttempts - subscribe_counter("attempt", "") <= Cardinality(At(165))

\* A success call and an attempt call both stand between their two updates:
\* the counter is 1 ahead for the one, the mirror 1 ahead for the other.
C16_Witness ==
  /\ inits = 1 /\ panics = 0
  /\ Cardinality(At(153)) = 1 /\ Cardinality(At(165)) = 1
  /\ subscribe_counter("success", "") - mirror.trackSubscribeSuccess = 1
  /\ mirror.trackSubscribeAttempts - subscribe_counter("attempt", "") = 1

\* The entry points whose first statement increments a mirror, by that
\* statement's line, with the mirror it increments.
MirrorFirstLines == {138, 143, 164}

MirrorFirst(line) ==
  CASE line = 138 -> "trackPublishAttempts"
    [] line = 143 -> "trackPublishSuccess"
    [] line = 164 -> "trackSubscribeAttempts"

\* C17 as stated: while initRoomStats has not been called, no event call
\* returns normally and all nine mirrors keep their values (zero, as loaded).
C17_FaultsWithoutChange ==
  inits = 0 => /\ \A w \in Workers : ~AtReturn(w)
               /\ mirror = ZeroMirrors

\* C17 amended: before initRoomStats every event call faults, none returns
\* normally.  The calls of nine entry points fault in their first statement,
\* with all nine mirrors unchanged.  AddPublishAttempt, AddPublishSuccess and
\* RecordTrackSubscribeAttempt first add 1 to their mirror and fault in their
\* second statement, the other eight mirrors unchanged.
C17_FaultsAfterMirrorFirst ==
  /\ [](inits = 0 => \A w \in Workers : ~AtReturn(w))
  /\ [][\A w \in Workers :
          (inits = 0 /\ inits' = 0 /\ pc[w] # 0 /\ pc'[w] # pc[w]) =>
            IF pc[w] \in MirrorFirstLines
              THEN /\ pc'[w] = pc[w] + 1 /\ panics' = panics
                   /\ mirror' = [mirror EXCEPT ![MirrorFirst(pc[w])] = @ + 1]
              ELSE /\ pc'[w] = 0 /\ panics' = panics + 1
                   /\ mirror' = mirror]_vars

\* Before initRoomStats, one call of each of the three entry points has
\* faulted and left its mirror at 1.
C17_Witness ==
  /\ inits = 0 /\ Quiescent /\ panics = 3
  /\ mirror = [ZeroMirrors EXCEPT !["trackPublishAttempts"] = 1,
                                  !["trackPublishSuccess"] = 1,
                                  !["trackSubscribeAttempts"] = 1]

\* The collector a package-level variable holds is one the registry exports.
Registered(var) ==
  \E c \in registry : c.fqName = FqName(var) /\ c.obj = prom[var]

\* C18 as stated: an initRoomStats call that faults in the registry leaves the
\* facade as it was, so once initRoomStats has been called and no call is in
\* flight, each of the seven package-level variables holds a collector that is
\* registered, and events stay visible in the exported series.
C18_FacadeStaysRegistered ==
  (Quiescent /\ inits >= 1) => \A var \in PromNames : Registered(var)

\* The five mirrors that are only ever incremented.
CumulativeMirrors ==
  {"trackPublishAttempts", "trackPublishSuccess", "trackSubscribeAttempts",
   "trackSubscribeSuccess", "trackSubscribeUserError"}

\* The counter series that four of them shadow.
CounterOf(m) ==
  CASE m = "trackPublishAttempts" -> publish_counter_sum("attempt")
    [] m = "trackPublishSuccess" -> publish_counter_sum("success")
    [] m = "trackSubscribeAttempts" -> subscribe_counter("attempt", "")
    [] m = "trackSubscribeSuccess" -> subscribe_counter("success", "")

\* A count n >= 0 as the mirror holds it: reduced by 2^bits into the range
\* MinInt32..MaxInt32.
RECURSIVE Wrap32(_)
Wrap32(n) == IF n <= MaxInt32 THEN n ELSE Wrap32((n - MaxInt32 - 1) + MinInt32)

\* C19 as stated: the five cumulative mirrors are never negative (they start at
\* zero and never decrease), and with no call in flight each equals its counter
\* series.
C19_NeverNegative ==
  /\ \A m \in CumulativeMirrors : mirror[m] >= 0
  /\ (Quiescent /\ InitAtMostOnce /\ panics = 0) =>
       \A m \in CumulativeMirrors \ {"trackSubscribeUserError"} : mirror[m] = CounterOf(m)

\* C19 amended: a cumulative mirror moves only by +1, except that the increment
\* of the largest value MaxInt32 gives the smallest, MinInt32; so with no call
\* in flight (initRoomStats called at most once, no call ended in a fault) it
\* holds the number of its increments, and the value of its counter series,
\* reduced by 2^bits into the signed range: equal to the series and
\* non-negative only up to MaxInt32 increments.
C19_WrapsAtMaxInt32 ==
  /\ []((Quiescent /\ InitAtMostOnce /\ panics = 0) =>
          /\ \A m \in CumulativeMirrors : mirror[m] = Wrap32(delta[m])
          /\ \A m \in CumulativeMirrors \ {"trackSubscribeUserError"} :
               /\ mirror[m] = Wrap32(CounterOf(m))
               /\ CounterOf(m) <= MaxInt32 => (mirror[m] >= 0 /\ mirror[m] = CounterOf(m)))
  /\ [][\A m \in CumulativeMirrors :
          \/ mirror'[m] = mirror[m]
          \/ mirror[m] < MaxInt32 /\ mirror'[m] = mirror[m] + 1
          \/ mirror[m] = MaxInt32 /\ mirror'[m] = MinInt32]_vars

\* With narrow mirrors: after initRoomStats, MaxInt32 + 1 subscribe attempts
\* have returned; the counter series holds their number, the mirror MinInt32.
C19_Witness ==
  /\ bits = NarrowBits /\ Quiescent /\ inits = 1 /\ panics = 0
  /\ subscribe_counter("attempt", "") = MaxInt32 + 1
  /\ mirror.trackSubscribeAttempts = MinInt32

====
